---- MODULE Spec2Model ----
(***************************************************************************)
(* Model of shared/src/ledger/events.rs: the ledger's Event type, its      *)
(* constructors and attribute accessors, its conversion to the Tendermint  *)
(* ABCI event, and the Attributes parser for subscription JSON.            *)
(*                                                                         *)
(* Rust Strings are TLA+ strings.  A HashMap<String, String> is a function *)
(* whose DOMAIN is the set of keys present.  Option<T> is a record with a  *)
(* `some` flag.  A panic (unwrap on Err, unreachable!, HashMap index on a  *)
(* missing key) is an outcome record with panicked = TRUE.                 *)
(***************************************************************************)
EXTENDS Integers, Sequences, FiniteSets, TLC

VARIABLES event, consumed, ret, wire, json, parsed

vars == <<event, consumed, ret, wire, json, parsed>>

(***************************************************************************)
(* Bounds of the model.                                                    *)
(***************************************************************************)
\* block heights are HeightStep * i for i in 0..MaxHeightIdx
MaxHeightIdx == 2
HeightStep == 55
\* the part of a transaction outside its header ranges over 0..MaxRest
MaxRest == 2
\* a subscription payload carries at most MaxAttrs attribute records
MaxAttrs == 2

(***************************************************************************)
(* Generic helpers.                                                        *)
(***************************************************************************)
None == [some |-> FALSE]
Some(v) == [some |-> TRUE, val |-> v]

EmptyMap == [k \in {} |-> ""]

\* HashMap::insert: add or overwrite one entry
insert(m, k, v) == [x \in DOMAIN m \cup {k} |-> IF x = k THEN v ELSE m[x]]

Range(s) == {s[i] : i \in DOMAIN s}

\* all orders in which a set can be enumerated
Orders(S) == {s \in [1..Cardinality(S) -> S] : Range(s) = S}

DecDigits == "0123456789"
HexDigits == "0123456789ABCDEF"

CharAt(s, i) == SubSeq(s, i, i)

\* u64::to_string: decimal rendering, no sign, no leading zeros
RECURSIVE u64_to_string(_)
u64_to_string(n) ==
    IF n < 10 THEN CharAt(DecDigits, n + 1)
    ELSE u64_to_string(n \div 10) \o CharAt(DecDigits, (n % 10) + 1)

(***************************************************************************)
(* Transactions and hashes (crate::proto::Tx, crate::types::hash::Hash).   *)
(***************************************************************************)
HASH_LENGTH == 32

\* RawHeader::default()
RawHeaderDefault == [tag |-> "Raw"]

\* the four header variants; new_tx_event reads nothing of a header but its
\* variant
TxType == [tag : {"Raw", "Wrapper", "Decrypted", "Protocol"}]

\* a transaction: its header and the content it was submitted with
Tx == [header : TxType, rest : 0..MaxRest]

\* Tx::header
header(tx) == tx.header

\* Tx::update_header: the same transaction under another header
update_header(tx, h) == [tx EXCEPT !.header = h]

\* the part a header takes in the header hash (section 4.1 of the design:
\* the hash under the raw placeholder header is the hash the transaction
\* had when it was submitted under its wrapper header, and is not the hash
\* it has under its Decrypted header)
TagByte(tag) ==
    CASE tag = "Raw" -> 1
      [] tag = "Wrapper" -> 1
      [] tag = "Decrypted" -> 2
      [] tag = "Protocol" -> 3

\* Tx::header_hash: a digest of HASH_LENGTH bytes over the header and the
\* content of the transaction
header_hash(tx) ==
    [i \in 1..HASH_LENGTH |->
        CASE i = 1 -> 160 + TagByte(tx.header.tag)
          [] i = 2 -> 16 * tx.rest + 11
          [] OTHER -> 0]

\* the decrypted transaction derived from a wrapper transaction: the same
\* transaction under a Decrypted header
decrypt(w) == update_header(w, [tag |-> "Decrypted"])

HexByte(b) == CharAt(HexDigits, (b \div 16) + 1) \o CharAt(HexDigits, (b % 16) + 1)

RECURSIVE HexOf(_)
HexOf(bytes) ==
    IF bytes = <<>> THEN "" ELSE HexByte(Head(bytes)) \o HexOf(Tail(bytes))

\* impl Display for Hash: two hex digits per byte
hash_to_string(h) == HexOf(h)

(***************************************************************************)
(* EventLevel, EventType, Event.                                           *)
(***************************************************************************)
EventLevel == {"Block", "Tx"}

Accepted == [tag |-> "Accepted"]
Applied == [tag |-> "Applied"]
Proposal == [tag |-> "Proposal"]
Ibc(t) == [tag |-> "Ibc", sub |-> t]

\* fmt with the Applied arm writing the text of the Accepted arm
fmt_applied_as_accepted(event_type) ==
    CASE event_type.tag = "Accepted" -> "accepted"
      [] event_type.tag = "Applied" -> "accepted"
      [] event_type.tag = "Ibc" -> event_type.sub
      [] event_type.tag = "Proposal" -> "proposal"

\* impl Display for EventType
fmt(event_type) ==
    CASE event_type.tag = "Accepted" -> "accepted"
      [] event_type.tag = "Applied" -> "applied"
      [] event_type.tag = "Ibc" -> event_type.sub
      [] event_type.tag = "Proposal" -> "proposal"

\* Event::contains_key
contains_key(e, key) == key \in DOMAIN e.attributes

\* Event::get
get(e, key) ==
    IF key \in DOMAIN e.attributes THEN Some(e.attributes[key]) ELSE None

\* index that answers a missing key with the empty string
index_or_default(e, key) ==
    IF key \in DOMAIN e.attributes
    THEN [panicked |-> FALSE, val |-> e.attributes[key]]
    ELSE [panicked |-> FALSE, val |-> ""]

\* impl Index<&str> for Event: HashMap indexing panics on a missing key
index(e, key) ==
    IF key \in DOMAIN e.attributes
    THEN [panicked |-> FALSE, val |-> e.attributes[key]]
    ELSE [panicked |-> TRUE]

\* index_mut that starts a new map when the key is absent
index_mut_fresh_map(e, key) ==
    IF ~(key \in DOMAIN e.attributes)
    THEN [e EXCEPT !.attributes = insert(EmptyMap, key, "")]
    ELSE e

\* impl IndexMut<&str> for Event: the event once the handle to the value
\* under `key` has been obtained (an absent key now holds the empty string)
index_mut(e, key) ==
    IF ~(key \in DOMAIN e.attributes)
    THEN [e EXCEPT !.attributes = insert(e.attributes, key, "")]
    ELSE e

\* event[key] = value: obtain the handle through index_mut, then store
assign(e, key, value) ==
    LET e1 == index_mut(e, key)
    IN  [e1 EXCEPT !.attributes[key] = value]

\* variants of new_tx_event: `naive` hashes a decrypted transaction under its
\* own header, `log` tells whether the `log` attribute is set, `lenient`
\* answers a header of another type with an Applied event
tx_event_variant(tx, height, naive, log, lenient) ==
    LET t == header(tx).tag
        fresh(ty) == [event_type |-> ty, level |-> "Tx", attributes |-> EmptyMap]
        hashed == IF t = "Decrypted" /\ ~naive
                  THEN update_header(tx, RawHeaderDefault) ELSE tx
        e0 == assign(fresh(IF t = "Wrapper" THEN Accepted ELSE Applied), "hash",
                     hash_to_string(header_hash(hashed)))
        e1 == assign(e0, "height", u64_to_string(height))
        e2 == IF log THEN assign(e1, "log", "") ELSE e1
    IN  IF t \in {"Wrapper", "Decrypted", "Protocol"} \/ lenient
        THEN [panicked |-> FALSE, event |-> e2]
        ELSE [panicked |-> TRUE]

new_tx_event_no_log(tx, height) == tx_event_variant(tx, height, FALSE, FALSE, FALSE)

new_tx_event_naive_hash(tx, height) == tx_event_variant(tx, height, TRUE, TRUE, FALSE)

new_tx_event_lenient(tx, height) == tx_event_variant(tx, height, FALSE, TRUE, TRUE)

\* Event::new_tx_event
new_tx_event(tx, height) ==
    LET t == header(tx).tag
        fresh(ty) == [event_type |-> ty, level |-> "Tx", attributes |-> EmptyMap]
        e0 == CASE t = "Wrapper" ->
                     assign(fresh(Accepted), "hash",
                            hash_to_string(header_hash(tx)))
                [] t = "Decrypted" ->
                     assign(fresh(Applied), "hash",
                            hash_to_string(header_hash(
                                update_header(tx, RawHeaderDefault))))
                [] t = "Protocol" ->
                     assign(fresh(Applied), "hash",
                            hash_to_string(header_hash(tx)))
        e1 == assign(e0, "height", u64_to_string(height))
        e2 == assign(e1, "log", "")
    IN  IF t \in {"Wrapper", "Decrypted", "Protocol"}
        THEN [panicked |-> FALSE, event |-> e2]
        ELSE [panicked |-> TRUE]

\* impl From<IbcEvent> for Event
from_ibc_event(ibc_event) ==
    [event_type |-> Ibc(ibc_event.event_type),
     level |-> "Tx",
     attributes |-> ibc_event.attributes]

\* the proposal conversion with the level of the IBC conversion
from_proposal_event_tx_level(proposal_event) ==
    [event_type |-> Proposal,
     level |-> "Tx",
     attributes |-> proposal_event.attributes]

\* impl From<ProposalEvent> for Event
from_proposal_event(proposal_event) ==
    [event_type |-> Proposal,
     level |-> "Block",
     attributes |-> proposal_event.attributes]

\* impl From<Event> for tendermint_proto::abci::Event; `order` is the order
\* in which HashMap::into_iter yields the keys (unspecified by the map)
into_abci_event(e, order) ==
    [type |-> fmt(e.event_type),
     attributes |->
        [i \in DOMAIN order |->
            [key |-> order[i], value |-> e.attributes[order[i]], index |-> TRUE]]]

(***************************************************************************)
(* serde_json::Value.                                                      *)
(***************************************************************************)
JNull == [t |-> "Null"]
JBool(b) == [t |-> "Bool", b |-> b]
JNumber(n) == [t |-> "Number", n |-> n]
JString(s) == [t |-> "String", s |-> s]
JArray(a) == [t |-> "Array", a |-> a]
JObject(o) == [t |-> "Object", o |-> o]

\* Value::get(&str): Some only on an object that has the field
value_get(v, field) ==
    IF v.t = "Object" /\ field \in DOMAIN v.o THEN Some(v.o[field]) ELSE None

\* serde_json::from_value::<String>
from_value_string(v) ==
    IF v.t = "String" THEN [ok |-> TRUE, val |-> v.s] ELSE [ok |-> FALSE]

\* serde_json::from_value::<Vec<Value>>
from_value_vec(v) ==
    IF v.t = "Array" THEN [ok |-> TRUE, val |-> v.a] ELSE [ok |-> FALSE]

\* the field names of the model in the order a serde_json Map (a BTreeMap)
\* iterates them
FieldOrder == <<"attributes", "index", "key", "type", "value">>

RECURSIVE JoinComma(_)
JoinComma(parts) ==
    IF parts = <<>> THEN ""
    ELSE IF Len(parts) = 1 THEN parts[1]
    ELSE parts[1] \o "," \o JoinComma(Tail(parts))

\* serde_json::to_string: compact JSON text (the strings of the model hold
\* no character that needs escaping)
RECURSIVE to_string(_)
to_string(v) ==
    CASE v.t = "Null" -> "null"
      [] v.t = "Bool" -> IF v.b THEN "true" ELSE "false"
      [] v.t = "Number" -> u64_to_string(v.n)
      [] v.t = "String" -> "\"" \o v.s \o "\""
      [] v.t = "Array" ->
            "[" \o JoinComma([i \in DOMAIN v.a |-> to_string(v.a[i])]) \o "]"
      [] v.t = "Object" ->
            LET present == SelectSeq(FieldOrder, LAMBDA f : f \in DOMAIN v.o)
            IN  "{" \o JoinComma([i \in DOMAIN present |->
                        "\"" \o present[i] \o "\":" \o to_string(v.o[present[i]])])
                \o "}"

(***************************************************************************)
(* Attributes and its parser.                                              *)
(***************************************************************************)
ParseOk(store) == [tag |-> "Ok", store |-> store]
MissingAttributes == [tag |-> "MissingAttributes"]
MissingKey(ctx) == [tag |-> "MissingKey", ctx |-> ctx]
MissingValue(ctx) == [tag |-> "MissingValue", ctx |-> ctx]
Panic == [tag |-> "Panic"]

\* Attributes::get
attributes_get(store, key) ==
    IF key \in DOMAIN store THEN Some(store[key]) ELSE None

\* Attributes::take: HashMap::remove, the value removed (if any) and the
\* store without the key
attributes_take(store, key) ==
    [opt |-> IF key \in DOMAIN store THEN Some(store[key]) ELSE None,
     store |-> [x \in DOMAIN store \ {key} |-> store[x]]]

\* the loop with the value read from the `key` field
RECURSIVE parse_attrs_value_from_key(_, _)
parse_attrs_value_from_key(attrs, attributes) ==
    IF attrs = <<>> THEN ParseOk(attributes)
    ELSE
        LET attr == Head(attrs)
            k == value_get(attr, "key")
            v == value_get(attr, "key")
        IN  IF ~k.some THEN MissingKey(to_string(attr))
            ELSE IF ~from_value_string(k.val).ok THEN Panic
            ELSE IF ~v.some THEN MissingValue(to_string(attr))
            ELSE IF ~from_value_string(v.val).ok THEN Panic
            ELSE parse_attrs_value_from_key(Tail(attrs),
                             insert(attributes,
                                    from_value_string(k.val).val,
                                    from_value_string(v.val).val))

\* the body of the `for attr in attrs` loop together with the loop itself:
\* the key argument of insert is evaluated before the value argument
RECURSIVE parse_attrs(_, _)
parse_attrs(attrs, attributes) ==
    IF attrs = <<>> THEN ParseOk(attributes)
    ELSE
        LET attr == Head(attrs)
            k == value_get(attr, "key")
            v == value_get(attr, "value")
        IN  IF ~k.some THEN MissingKey(to_string(attr))
            ELSE IF ~from_value_string(k.val).ok THEN Panic
            ELSE IF ~v.some THEN MissingValue(to_string(attr))
            ELSE IF ~from_value_string(v.val).ok THEN Panic
            ELSE parse_attrs(Tail(attrs),
                             insert(attributes,
                                    from_value_string(k.val).val,
                                    from_value_string(v.val).val))

\* impl TryFrom<&serde_json::Value> for Attributes
try_from(j) ==
    LET a == value_get(j, "attributes")
    IN  IF ~a.some THEN MissingAttributes
        ELSE IF ~from_value_vec(a.val).ok THEN Panic
        ELSE parse_attrs(from_value_vec(a.val).val, EmptyMap)

\* the subscription payload a client receives for a wire event: the
\* attribute triples as {key, value} records under `attributes`
wire_json(w) ==
    JObject("type" :> JString(w.type) @@
            "attributes" :> JArray(
                [i \in DOMAIN w.attributes |->
                    JObject("key" :> JString(w.attributes[i].key) @@
                            "value" :> JString(w.attributes[i].value))]))

(***************************************************************************)
(* Inputs.                                                                 *)
(***************************************************************************)
Heights == {HeightStep * i : i \in 0..MaxHeightIdx}

Keys == {"hash", "height", "log", "k"}

Values == {"", "x"}

AttrMaps == UNION {[S -> Values] : S \in SUBSET Keys}

IbcTypes == {"foo", "applied"}

\* crate::types::ibc::IbcEvent
IbcEvent == [event_type : IbcTypes, attributes : AttrMaps]

\* crate::ledger::native_vp::governance::utils::ProposalEvent
ProposalEvent == [event_type : {"proposal"}, attributes : AttrMaps]

\* one record of the `attributes` array of a subscription payload: an object
\* whose `key` and `value` are each absent, a string or of another type, or
\* a value that is no object
AttrRecords ==
    LET keyOpts == {<<>>} \cup {<<JString(s)>> : s \in {"a", "b"}} \cup {<<JNumber(1)>>}
        valOpts == {<<>>} \cup {<<JString(s)>> : s \in Values} \cup {<<JNull>>}
        obj(ko, vo) ==
            JObject([f \in (IF ko = <<>> THEN {} ELSE {"key"}) \cup
                           (IF vo = <<>> THEN {} ELSE {"value"}) |->
                        IF f = "key" THEN ko[1] ELSE vo[1]])
    IN  {obj(ko, vo) : ko \in keyOpts, vo \in valOpts} \cup {JString("a")}

\* the keys a subscriber looks up or takes from a parsed store
ProbeKeys == {"hash", "a"}

JsonInputs ==
    {JNull, JString("x"), JArray(<<>>), JObject(EmptyMap),
     JObject("type" :> JString("foo"))}
    \cup {JObject("attributes" :> a) : a \in {JNull, JString("x"), JObject(EmptyMap)}}
    \cup {JObject("attributes" :> JArray(a)) :
            a \in UNION {[1..n -> AttrRecords] : n \in 0..MaxAttrs}}

(***************************************************************************)
(* State.                                                                  *)
(*   event     the Event under construction / in use, or NoEvent           *)
(*   consumed  the Event has been moved into the wire conversion           *)
(*   ret       what the last call was and what it returned                 *)
(*   wire      the ABCI event the Event was converted to, or NoWire        *)
(*   json      the subscription payload given to the parser, or NoJson     *)
(*   parsed    the outcome of Attributes::try_from(json), or NoParsed; the *)
(*             store of an Ok outcome is the one take removes from         *)
(***************************************************************************)
NoEvent == [tag |-> "NoEvent"]
NoWire == [tag |-> "NoWire"]
NoJson == [t |-> "NoJson"]
NoParsed == [tag |-> "NoParsed"]
NoRet == [op |-> "none"]

Init ==
    /\ event = NoEvent
    /\ consumed = FALSE
    /\ ret = NoRet
    /\ wire = NoWire
    /\ json = NoJson
    /\ parsed = NoParsed

\* nothing has happened yet: an Event is created once per observed effect
\* and a payload is parsed once, neither is reused
Idle == event = NoEvent /\ json = NoJson /\ ret = NoRet

\* a call of Event::new_tx_event(tx, height)
NewTxEvent(tx, height) ==
    LET r == new_tx_event(tx, height)
    IN  /\ Idle
        /\ event' = IF r.panicked THEN NoEvent ELSE r.event
        /\ ret' = [op |-> "new_tx_event", tx |-> tx, height |-> height,
                   panicked |-> r.panicked]
        /\ consumed' = FALSE
        /\ wire' = NoWire
        /\ json' = NoJson
        /\ parsed' = NoParsed

\* Event::from(ibc_event)
FromIbcEvent(ibc_event) ==
    /\ Idle
    /\ event' = from_ibc_event(ibc_event)
    /\ ret' = [op |-> "from_ibc_event", src |-> ibc_event]
    /\ consumed' = FALSE
    /\ wire' = NoWire
    /\ json' = NoJson
    /\ parsed' = NoParsed

\* Event::from(proposal_event)
FromProposalEvent(proposal_event) ==
    /\ Idle
    /\ event' = from_proposal_event(proposal_event)
    /\ ret' = [op |-> "from_proposal_event", src |-> proposal_event]
    /\ consumed' = FALSE
    /\ wire' = NoWire
    /\ json' = NoJson
    /\ parsed' = NoParsed

Live == event # NoEvent /\ ~consumed

\* event[key] = value
IndexMutWrite(key, value) ==
    /\ Live
    /\ event' = assign(event, key, value)
    /\ ret' = [op |-> "index_mut", key |-> key, value |-> value]
    /\ UNCHANGED <<consumed, wire, json, parsed>>

\* &event[key]
IndexRead(key) ==
    /\ Live
    /\ ret' = [op |-> "index", key |-> key, out |-> index(event, key)]
    /\ UNCHANGED <<event, consumed, wire, json, parsed>>

\* event.get(key)
Get(key) ==
    /\ Live
    /\ ret' = [op |-> "get", key |-> key, opt |-> get(event, key)]
    /\ UNCHANGED <<event, consumed, wire, json, parsed>>

\* event.contains_key(key)
ContainsKey(key) ==
    /\ Live
    /\ ret' = [op |-> "contains_key", key |-> key, found |-> contains_key(event, key)]
    /\ UNCHANGED <<event, consumed, wire, json, parsed>>

\* tendermint_proto::abci::Event::from(event): the Event is moved; `event`
\* keeps the value that was moved, no call can use it any more
IntoWire ==
    /\ Live
    /\ \E order \in Orders(DOMAIN event.attributes) :
            wire' = into_abci_event(event, order)
    /\ consumed' = TRUE
    /\ ret' = [op |-> "into_abci_event"]
    /\ UNCHANGED <<event, json, parsed>>

\* the wire event reaches a subscriber as a payload
Deliver ==
    /\ wire # NoWire
    /\ json = NoJson
    /\ json' = wire_json(wire)
    /\ ret' = [op |-> "deliver"]
    /\ UNCHANGED <<event, consumed, wire, parsed>>

\* a subscriber receives an arbitrary payload
ReceiveJson(j) ==
    /\ Idle
    /\ json' = j
    /\ event' = NoEvent
    /\ consumed' = FALSE
    /\ wire' = NoWire
    /\ parsed' = NoParsed
    /\ ret' = [op |-> "receive"]

\* Attributes::try_from(&json)
Parse ==
    /\ json # NoJson
    /\ parsed = NoParsed
    /\ parsed' = try_from(json)
    /\ ret' = [op |-> "try_from"]
    /\ UNCHANGED <<event, consumed, wire, json>>

\* attributes.get(key) on a parsed store
AttributesGet(key) ==
    /\ parsed.tag = "Ok"
    /\ ret' = [op |-> "attributes_get", key |-> key,
               opt |-> attributes_get(parsed.store, key)]
    /\ UNCHANGED <<event, consumed, wire, json, parsed>>

\* attributes.take(key) on a parsed store: the entry leaves the store
AttributesTake(key) ==
    /\ parsed.tag = "Ok"
    /\ ret' = [op |-> "attributes_take", key |-> key,
               opt |-> attributes_take(parsed.store, key).opt]
    /\ parsed' = [parsed EXCEPT !.store = attributes_take(parsed.store, key).store]
    /\ UNCHANGED <<event, consumed, wire, json>>

Next ==
    \/ \E tx \in Tx, height \in Heights : NewTxEvent(tx, height)
    \/ \E ibc_event \in IbcEvent : FromIbcEvent(ibc_event)
    \/ \E proposal_event \in ProposalEvent : FromProposalEvent(proposal_event)
    \/ \E key \in Keys, value \in Values : IndexMutWrite(key, value)
    \/ \E key \in Keys : IndexRead(key)
    \/ \E key \in Keys : Get(key)
    \/ \E key \in Keys : ContainsKey(key)
    \/ IntoWire
    \/ Deliver
    \/ \E j \in JsonInputs : ReceiveJson(j)
    \/ Parse
    \/ \E key \in ProbeKeys : AttributesGet(key)
    \/ \E key \in ProbeKeys : AttributesTake(key)

Spec == Init /\ [][Next]_vars

(***************************************************************************)
(* Properties.                                                             *)
(***************************************************************************)
TxEventTags == {"Wrapper", "Decrypted", "Protocol"}

\* s is the decimal numeral of n: digits only, no leading zero, value n
RECURSIVE DecimalValue(_)
DecimalValue(s) ==
    IF s = "" THEN 0
    ELSE DecimalValue(SubSeq(s, 1, Len(s) - 1)) * 10 +
         (CHOOSE d \in 0..9 : CharAt(DecDigits, d + 1) = CharAt(s, Len(s)))

IsDecimalOf(s, n) ==
    /\ Len(s) >= 1
    /\ \A i \in 1..Len(s) : \E d \in 0..9 : CharAt(s, i) = CharAt(DecDigits, d + 1)
    /\ (Len(s) > 1 => CharAt(s, 1) # "0")
    /\ DecimalValue(s) = n

\* C1: right after new_tx_event(tx, h) on a Wrapper, Decrypted or Protocol
\* transaction the call has returned an event of level Tx, of kind Accepted
\* for Wrapper and Applied for the other two, whose attributes hold `height`
\* = the decimal numeral of h, `log` = "" and a non-empty `hash`.
C1_NewTxEvent ==
    (ret.op = "new_tx_event" /\ ret.tx.header.tag \in TxEventTags) =>
        /\ ~ret.panicked
        /\ event # NoEvent
        /\ event.level = "Tx"
        /\ event.event_type =
              (IF ret.tx.header.tag = "Wrapper" THEN Accepted ELSE Applied)
        /\ {"hash", "height", "log"} \subseteq DOMAIN event.attributes
        /\ IsDecimalOf(event.attributes["height"], ret.height)
        /\ event.attributes["log"] = ""
        /\ event.attributes["hash"] # ""

C1_Witness ==
    /\ ret.op = "new_tx_event"
    /\ ret.tx.header.tag = "Decrypted"
    /\ ret.height >= 100
    /\ event # NoEvent
    /\ event.attributes["height"] = u64_to_string(ret.height)

RoundTripped == parsed # NoParsed /\ wire # NoWire /\ ret.op = "try_from"

\* C3: when the attribute map M of an Event goes to the wire event, the
\* wire triples go to the parser as {key, value} records and the parser has
\* run, the parse succeeded and the store answers get(k) with M's value for
\* every key of M and with None for every other key.
C3_RoundTrip ==
    RoundTripped =>
        /\ parsed.tag = "Ok"
        /\ \A k \in DOMAIN event.attributes :
              attributes_get(parsed.store, k) = Some(event.attributes[k])
        /\ \A k \in (Keys \cup DOMAIN parsed.store) \ DOMAIN event.attributes :
              attributes_get(parsed.store, k) = None

C3_Witness ==
    /\ RoundTripped
    /\ parsed.tag = "Ok"
    /\ Cardinality(DOMAIN event.attributes) >= 3
    /\ event.attributes["hash"] # event.attributes["log"]
    /\ attributes_get(parsed.store, "hash") = Some(event.attributes["hash"])

\* the payload is an object whose `attributes` field is an array
HasAttrArray(j) ==
    /\ j.t = "Object"
    /\ "attributes" \in DOMAIN j.o
    /\ j.o["attributes"].t = "Array"

HasField(v, f) == v.t = "Object" /\ f \in DOMAIN v.o

Lacking(attrs) ==
    {i \in DOMAIN attrs : ~HasField(attrs[i], "key") \/ ~HasField(attrs[i], "value")}

FirstLacking(attrs) ==
    CHOOSE i \in Lacking(attrs) : \A j \in Lacking(attrs) : i <= j

\* C4: a payload without an `attributes` field parses to MissingAttributes;
\* otherwise, when some record lacks `key` or `value`, the parse is the
\* error of the first such record: MissingKey if it lacks `key`, else
\* MissingValue, with the serialization of that record as context.
C4_ErrorTaxonomy ==
    parsed # NoParsed =>
        /\ ~HasField(json, "attributes") => parsed = MissingAttributes
        /\ (HasAttrArray(json) /\ Lacking(json.o["attributes"].a) # {}) =>
              LET attrs == json.o["attributes"].a
                  r == attrs[FirstLacking(attrs)]
              IN  parsed = IF ~HasField(r, "key")
                           THEN MissingKey(to_string(r))
                           ELSE MissingValue(to_string(r))

\* the taxonomy of C4 on the payloads on which the parser does not panic
C4_TaxonomyUnlessPanic == parsed # Panic => C4_ErrorTaxonomy

\* C5: the parser returns a store or one of its three errors on every
\* payload; it never panics.
C5_ParserRecoverable ==
    parsed # NoParsed =>
        parsed.tag \in {"Ok", "MissingAttributes", "MissingKey", "MissingValue"}

\* C6: a step event[k] = v leaves get(k) = Some(v) and contains_key(k) true,
\* goes through a handle under which an absent k holds "" and a present k
\* its old value, and leaves the kind, the level and every other attribute
\* as they were.
C6_IndexedWrite ==
    [][(ret'.op = "index_mut" /\ ret' # ret) =>
          LET k == ret'.key
              v == ret'.value
              h == index_mut(event, k)
          IN  /\ get(event', k) = Some(v)
              /\ contains_key(event', k)
              /\ h.attributes[k] =
                    (IF k \in DOMAIN event.attributes
                     THEN event.attributes[k] ELSE "")
              /\ event'.event_type = event.event_type
              /\ event'.level = event.level
              /\ DOMAIN event'.attributes = DOMAIN event.attributes \cup {k}
              /\ \A j \in DOMAIN event.attributes \ {k} :
                    event'.attributes[j] = event.attributes[j]]_vars

C6_Witness ==
    /\ ret.op = "index_mut"
    /\ ret.key = "k"
    /\ ret.value = "x"
    /\ event.event_type = Accepted
    /\ DOMAIN event.attributes = {"hash", "height", "log", "k"}
    /\ event.attributes["k"] = "x"
    /\ event.attributes["hash"] # "x"

\* the wire type each kind must be rendered as
WireTypeOf(event_type) ==
    IF event_type = Accepted THEN "accepted"
    ELSE IF event_type = Applied THEN "applied"
    ELSE IF event_type = Proposal THEN "proposal"
    ELSE event_type.sub

\* C7: the wire event of an Event has the rendering of its kind as type and
\* exactly one attribute per entry of the attribute map, with the entry's
\* key and value and index = TRUE.
C7_WireConversion ==
    wire # NoWire =>
        /\ wire.type = WireTypeOf(event.event_type)
        /\ Len(wire.attributes) = Cardinality(DOMAIN event.attributes)
        /\ \A k \in DOMAIN event.attributes :
              Cardinality({i \in DOMAIN wire.attributes :
                              wire.attributes[i].key = k}) = 1
        /\ \A i \in DOMAIN wire.attributes :
              /\ wire.attributes[i].key \in DOMAIN event.attributes
              /\ wire.attributes[i].value =
                    event.attributes[wire.attributes[i].key]
              /\ wire.attributes[i].index = TRUE

C7_Witness ==
    /\ wire # NoWire
    /\ event.event_type = Applied
    /\ wire.type = "applied"
    /\ Len(wire.attributes) = 4
    /\ wire.attributes[1].key = "log"

\* C8: the Event of an IBC effect record has kind Ibc(its type), level Tx
\* and its attributes; the Event of a proposal effect record has kind
\* Proposal, level Block and its attributes; both conversions return.
C8_InboundConversions ==
    /\ ret.op = "from_ibc_event" =>
          /\ event.event_type = Ibc(ret.src.event_type)
          /\ event.event_type.sub = ret.src.event_type
          /\ event.level = "Tx"
          /\ event.attributes = ret.src.attributes
    /\ ret.op = "from_proposal_event" =>
          /\ event.event_type = Proposal
          /\ event.level = "Block"
          /\ event.attributes = ret.src.attributes

C8_Witness ==
    /\ ret.op = "from_proposal_event"
    /\ DOMAIN ret.src.attributes = {"hash", "k"}
    /\ event.level = "Block"
    /\ event.attributes["k"] = "x"

\* C9: new_tx_event on a transaction whose header is none of Wrapper,
\* Decrypted, Protocol panics and returns no Event.
C9_FailFast ==
    (ret.op = "new_tx_event" /\ ~(ret.tx.header.tag \in TxEventTags)) =>
        /\ ret.panicked
        /\ event = NoEvent

C9_Witness ==
    /\ ret.op = "new_tx_event"
    /\ ret.tx.header = RawHeaderDefault
    /\ ret.panicked

\* C10: &event[k] panics exactly when k is absent and otherwise returns the
\* stored value; get(k) is None and contains_key(k) is false exactly when k
\* is absent (a key holding "" gives Some("")); none of the three changes
\* the event.
C10_ReadAccess ==
    [][(ret'.op \in {"index", "get", "contains_key"} /\ ret' # ret) =>
          LET k == ret'.key
              present == k \in DOMAIN event.attributes
          IN  /\ event' = event
              /\ ret'.op = "index" =>
                    /\ ret'.out.panicked <=> ~present
                    /\ present => ret'.out.val = event.attributes[k]
              /\ ret'.op = "get" =>
                    /\ ret'.opt = None <=> ~present
                    /\ present => ret'.opt = Some(event.attributes[k])
              /\ ret'.op = "contains_key" =>
                    (ret'.found <=> present)]_vars

C10_Witness ==
    /\ ret.op = "index"
    /\ ret.out.panicked
    /\ ret.key = "k"
    /\ event.attributes["log"] = ""
    /\ get(event, "log") = Some("")
    /\ get(event, "k") = None

====
